---- MODULE Spec2Model ----
(***************************************************************************)
(* hostApi::Manager (src/openassetio-core/src/hostApi/Manager.cpp): the    *)
(* host-facing facade over a manager plugin (ManagerInterface).            *)
(*                                                                         *)
(* The facade's own state is the optional entity reference prefix.  The    *)
(* plugin and the logger are collaborators: the model records every call   *)
(* the facade makes on them during the current (or last) facade call in    *)
(* `trace`, as a recording stub would.  A plugin batch method reports one  *)
(* outcome per index, in any order, by invoking the callbacks it was       *)
(* handed; each such invocation is one step of the model.                  *)
(***************************************************************************)
EXTENDS Integers, Sequences, FiniteSets, TLC

\* ---------------------------------------------------------------- bounds
MaxBatch == 2      \* longest batch input
MaxStrLen == 2     \* longest string handed to the classifier
MaxPrefixLen == 1  \* longest prefix string the info dictionary holds
MaxPageSize == 2   \* largest page size of a relationship query

\* ---------------------------------------------------------------- values
Chars == {"r", "o"}
Strs == UNION {[1..k -> Chars] : k \in 0..MaxStrLen}
PrefixStrs == UNION {[1..k -> Chars] : k \in 0..MaxPrefixLen}

NullOpt == [has |-> FALSE, val |-> <<>>]
Some(s) == [has |-> TRUE, val |-> s]

\* ManagerInterface::Capability values the facade queries.
kEntityReferenceIdentification == "entityReferenceIdentification"
kManagementPolicyQueries == "managementPolicyQueries"
kEntityTraitIntrospection == "entityTraitIntrospection"
kStatefulContexts == "statefulContexts"
Capabilities ==
  {kEntityReferenceIdentification, kManagementPolicyQueries,
   kEntityTraitIntrospection, kStatefulContexts}

kRequiredCapabilities ==
  <<kEntityReferenceIdentification, kManagementPolicyQueries, kEntityTraitIntrospection>>

\* What the plugin answers to identifier().
PluginIdentifier == "org.plugin.id"

\* The value the info dictionary holds at kInfoKey_EntityReferencesMatchPrefix:
\* absent, or one alternative of the InfoDictionary value variant.
InfoKinds == {"absent", "str", "bool", "int", "float"}
InfoValues ==
  {[kind |-> k, val |-> <<>>] : k \in InfoKinds \ {"str"}}
    \cup {[kind |-> "str", val |-> s] : s \in PrefixStrs}

\* Per-index payloads a plugin batch method reports.
Values == {"v1", "v2"}
Errors == {"e1", "e2"}
NoOutcome == [kind |-> "none", val |-> ""]
Success(v) == [kind |-> "success", val |-> v]
Failure(e) == [kind |-> "error", val |-> e]

\* Opaque manager states and persistence tokens ("" is the empty token).
States == {"s1", "s2"}
NoState == "nullptr"
EmptyToken == ""
Tokens == {EmptyToken, "t1"}

\* One recorded call on a collaborator (plugin or logger).
Ev(name, detail, data) == [ev |-> name, detail |-> detail, data |-> data]

\* ------------------------------------------------------------ call outcome
NoRet ==
  [kind |-> "none", exc |-> "", index |-> -1, error |-> "", msg |-> <<>>, value |-> <<>>]
Return(v) ==
  [kind |-> "return", exc |-> "", index |-> -1, error |-> "", msg |-> <<>>, value |-> v]
Throw(type, message) ==
  [kind |-> "throw", exc |-> type, index |-> -1, error |-> "", msg |-> message, value |-> <<>>]

VARIABLES
  entityReferencePrefix_,  \* Manager::entityReferencePrefix_ (std::optional<Str>)
  pc,                      \* where the current facade call stands
  call,                    \* the current (or last) facade call and its arguments
  prefixAtEntry,           \* entityReferencePrefix_ when that call was entered
  trace,                   \* collaborator calls made during that call, in order
  reported,                \* per index: the outcome the plugin reported so far
  firstError,              \* index and error of the first error callback invoked
  successCb,               \* per index: what the host's success callback received
  errorCb,                 \* per index: what the host's error callback received
  result,                  \* the local aggregate a derived call shape fills
  ret                      \* how that call ended

vars ==
  <<entityReferencePrefix_, pc, call, prefixAtEntry, trace, reported,
    firstError, successCb, errorCb, result, ret>>


\* ------------------------------------------------------------- pure helpers
BoolName(b) == IF b THEN "true" ELSE "false"

\* A recorded capability query and the plugin's answer to it.
HasCapabilityEv(capability, answer) ==
  Ev("plugin.hasCapability", capability, <<BoolName(answer)>>)

Min(a, b) == IF a < b THEN a ELSE b

\* Str::npos, as the "not found" result of rfind.
npos == -1

\* fmt::join(items, sep), as the sequence of the pieces it writes.
RECURSIVE Join(_, _)
Join(items, sep) ==
  IF Len(items) = 0 THEN <<>>
  ELSE IF Len(items) = 1 THEN <<items[1]>>
  ELSE <<items[1], sep>> \o Join(Tail(items), sep)

\* std::to_string of a size: the decimal digits, most significant first.
Digits == <<"0", "1", "2", "3", "4", "5", "6", "7", "8", "9">>
RECURSIVE to_string(_)
to_string(k) ==
  IF k < 10 THEN <<Digits[k + 1]>>
  ELSE to_string(k \div 10) \o <<Digits[(k % 10) + 1]>>

\* Faulty variant of RFind: pos is ignored, as in someString.rfind(prefix),
\* so the prefix is found wherever it occurs.
RFind_Anywhere(someString, prefix, pos) ==
  IF Len(prefix) > Len(someString) THEN npos
  ELSE LET last == Len(someString) - Len(prefix)
           found == {i \in 0..last : SubSeq(someString, i + 1, i + Len(prefix)) = prefix}
       IN IF found = {} THEN npos ELSE CHOOSE i \in found : \A j \in found : j <= i

\* someString.rfind(prefix, pos): the highest position <= pos at which prefix
\* occurs in someString (positions count from 0), or npos.
RFind(someString, prefix, pos) ==
  IF Len(prefix) > Len(someString) THEN npos
  ELSE LET last == Min(Len(someString) - Len(prefix), pos)
           found == {i \in 0..last : SubSeq(someString, i + 1, i + Len(prefix)) = prefix}
       IN IF found = {} THEN npos ELSE CHOOSE i \in found : \A j \in found : j <= i

\* Faulty variant of MissingCapabilities: the loop stops at the first
\* capability the plugin does not have.
RECURSIVE MissingCapabilities_FirstOnly(_, _)
MissingCapabilities_FirstOnly(i, pluginCaps) ==
  IF i > Len(kRequiredCapabilities) THEN <<>>
  ELSE IF kRequiredCapabilities[i] \notin pluginCaps THEN <<kRequiredCapabilities[i]>>
  ELSE MissingCapabilities_FirstOnly(i + 1, pluginCaps)

\* The loop of verifyRequiredCapabilities over kRequiredCapabilities from
\* position i on: the names of the capabilities the plugin does not have.
RECURSIVE MissingCapabilities(_, _)
MissingCapabilities(i, pluginCaps) ==
  IF i > Len(kRequiredCapabilities) THEN <<>>
  ELSE (IF kRequiredCapabilities[i] \notin pluginCaps
          THEN <<kRequiredCapabilities[i]>> ELSE <<>>)
         \o MissingCapabilities(i + 1, pluginCaps)

\* verifyRequiredCapabilities(interface): whether it throws, the message of
\* the ConfigurationException, and the calls it makes on the plugin.
verifyRequiredCapabilities(pluginCaps) ==
  LET missing == MissingCapabilities(1, pluginCaps)
      queries == [i \in 1..Len(kRequiredCapabilities) |->
                    HasCapabilityEv(kRequiredCapabilities[i],
                                    kRequiredCapabilities[i] \in pluginCaps)]
  IN IF Len(missing) = 0
       THEN [throws |-> FALSE, msg |-> <<>>, events |-> queries]
       ELSE [throws |-> TRUE,
             msg |-> <<"Manager implementation for '", PluginIdentifier,
                       "' does not support the required capabilities: ">>
                       \o Join(missing, ", "),
             events |-> queries \o <<Ev("plugin.identifier", "", <<>>)>>]

\* Faulty variant of entityReferencePrefixFromInfo: a value of another type
\* is skipped without the warning.
entityReferencePrefixFromInfo_NoWarning(info) ==
  IF info.kind = "str"
    THEN [prefix |-> Some(info.val),
          events |-> <<Ev("logger.debugApi", "prefix provided", info.val)>>]
    ELSE [prefix |-> NullOpt, events |-> <<>>]

\* entityReferencePrefixFromInfo(logger, info): the optional prefix and the
\* calls it makes on the logger.
entityReferencePrefixFromInfo(info) ==
  IF info.kind # "absent"
    THEN IF info.kind = "str"
           THEN [prefix |-> Some(info.val),
                 events |-> <<Ev("logger.debugApi", "prefix provided", info.val)>>]
           ELSE [prefix |-> NullOpt,
                 events |-> <<Ev("logger.warning", "prefix invalid type", <<>>)>>]
    ELSE [prefix |-> NullOpt, events |-> <<>>]

\* ------------------------------------------------------------------- calls
\* op and shape name the entry point; n and m are the lengths of the batch
\* input and of its parallel sequence; arg is a string argument and handle a
\* manager state or persistence token argument.
Call(op, shape, n, m, pageSize, arg, handle) ==
  [op |-> op, shape |-> shape, n |-> n, m |-> m, pageSize |-> pageSize, arg |-> arg,
   handle |-> handle]

NoFirstError == [index |-> -1, error |-> ""]
NoBatch == [i \in {} |-> NoOutcome]

\* A call that is no batch call leaves the batch observations empty.
NoBatchObservations ==
  /\ reported' = NoBatch
  /\ firstError' = NoFirstError
  /\ successCb' = NoBatch
  /\ errorCb' = NoBatch
  /\ result' = NoBatch

Init ==
  /\ entityReferencePrefix_ = NullOpt
  /\ pc = "idle"
  /\ call = Call("make", "", 0, 0, 0, <<>>, "")
  /\ prefixAtEntry = NullOpt
  /\ trace = <<>>
  /\ reported = NoBatch
  /\ firstError = NoFirstError
  /\ successCb = NoBatch
  /\ errorCb = NoBatch
  /\ result = NoBatch
  /\ ret = NoRet

\* ------------------------------------------------------- Manager::initialize
\* Line 122: the plugin's own initialize runs.
Initialize_plugin ==
  /\ pc = "idle"
  /\ call' = Call("initialize", "", 0, 0, 0, <<>>, "")
  /\ prefixAtEntry' = entityReferencePrefix_
  /\ trace' = <<Ev("plugin.initialize", "", <<>>)>>
  /\ ret' = NoRet
  /\ pc' = "initialize_verify"
  /\ NoBatchObservations
  /\ UNCHANGED entityReferencePrefix_

\* Faulty variant of Initialize_verify: the info dictionary is read and the
\* prefix assigned before the capabilities are verified.
Initialize_verify_PrefixFirst ==
  /\ pc = "initialize_verify"
  /\ \E pluginCaps \in SUBSET Capabilities, info \in InfoValues :
       LET v == verifyRequiredCapabilities(pluginCaps)
           p == entityReferencePrefixFromInfo(info)
       IN /\ trace' = ((trace \o <<Ev("plugin.info", info.kind, info.val)>>) \o p.events)
                         \o v.events
          /\ entityReferencePrefix_' = p.prefix
          /\ IF v.throws
               THEN /\ ret' = Throw("ConfigurationException", v.msg)
                    /\ pc' = "idle"
               ELSE /\ ret' = ret
                    /\ pc' = "initialize_prefix"
  /\ UNCHANGED <<call, prefixAtEntry, reported, firstError, successCb, errorCb, result>>

\* Line 128: verifyRequiredCapabilities(managerInterface_), the plugin having
\* the capabilities pluginCaps now that it is initialized.
Initialize_verify ==
  /\ pc = "initialize_verify"
  /\ \E pluginCaps \in SUBSET Capabilities :
       LET v == verifyRequiredCapabilities(pluginCaps)
       IN /\ trace' = trace \o v.events
          /\ IF v.throws
               THEN /\ ret' = Throw("ConfigurationException", v.msg)
                    /\ pc' = "idle"
               ELSE /\ ret' = ret
                    /\ pc' = "initialize_prefix"
  /\ UNCHANGED <<entityReferencePrefix_, call, prefixAtEntry, reported,
                 firstError, successCb, errorCb, result>>

\* Lines 130-131: the info dictionary is read and the prefix assigned.
Initialize_prefix ==
  /\ pc = "initialize_prefix"
  /\ \E info \in InfoValues :
       LET p == entityReferencePrefixFromInfo(info)
       IN /\ trace' = (trace \o <<Ev("plugin.info", info.kind, info.val)>>) \o p.events
          /\ entityReferencePrefix_' = p.prefix
  /\ ret' = Return(<<>>)
  /\ pc' = "idle"
  /\ UNCHANGED <<call, prefixAtEntry, reported, firstError, successCb,
                 errorCb, result>>

\* ------------------------------------------------------ Manager::flushCaches
\* Faulty variant of FlushCaches: the cached prefix is dropped as well.
FlushCaches_DropsPrefix ==
  /\ pc = "idle"
  /\ call' = Call("flushCaches", "", 0, 0, 0, <<>>, "")
  /\ prefixAtEntry' = entityReferencePrefix_
  /\ trace' = <<Ev("plugin.flushCaches", "", <<>>)>>
  /\ ret' = Return(<<>>)
  /\ entityReferencePrefix_' = NullOpt
  /\ NoBatchObservations
  /\ UNCHANGED pc

FlushCaches ==
  /\ pc = "idle"
  /\ call' = Call("flushCaches", "", 0, 0, 0, <<>>, "")
  /\ prefixAtEntry' = entityReferencePrefix_
  /\ trace' = <<Ev("plugin.flushCaches", "", <<>>)>>
  /\ ret' = Return(<<>>)
  /\ NoBatchObservations
  /\ UNCHANGED <<entityReferencePrefix_, pc>>

\* ------------------------------------------- Manager::isEntityReferenceString
\* The body of isEntityReferenceString: its result and the calls it makes on
\* the plugin, the plugin answering pluginAnswer if it is asked.
isEntityReferenceString(prefix, someString, pluginAnswer) ==
  IF ~prefix.has
    THEN [value |-> pluginAnswer,
          events |-> <<Ev("plugin.isEntityReferenceString", BoolName(pluginAnswer),
                          someString)>>]
    ELSE [value |-> RFind(someString, prefix.val, 0) # npos, events |-> <<>>]

IsEntityReferenceString(someString) ==
  /\ pc = "idle"
  /\ call' = Call("isEntityReferenceString", "", 0, 0, 0, someString, "")
  /\ prefixAtEntry' = entityReferencePrefix_
  /\ \E pluginAnswer \in BOOLEAN :
       LET r == isEntityReferenceString(entityReferencePrefix_, someString, pluginAnswer)
       IN /\ trace' = r.events
          /\ ret' = Return(r.value)
  /\ NoBatchObservations
  /\ UNCHANGED <<entityReferencePrefix_, pc>>

\* ------------------------------------------- Manager::createEntityReference
kCreateEntityReferenceErrorMessage == "Invalid entity reference: "

CreateEntityReference(entityReferenceString) ==
  /\ pc = "idle"
  /\ call' = Call("createEntityReference", "", 0, 0, 0, entityReferenceString, "")
  /\ prefixAtEntry' = entityReferencePrefix_
  /\ \E pluginAnswer \in BOOLEAN :
       LET r == isEntityReferenceString(entityReferencePrefix_, entityReferenceString,
                                        pluginAnswer)
       IN /\ trace' = r.events
          /\ ret' = IF ~r.value
                      THEN Throw("InputValidationException",
                                 <<kCreateEntityReferenceErrorMessage, entityReferenceString>>)
                      ELSE Return(Some(entityReferenceString))
  /\ NoBatchObservations
  /\ UNCHANGED <<entityReferencePrefix_, pc>>

\* Faulty variant of CreateEntityReferenceIfValid: the string is wrapped
\* without being classified.
CreateEntityReferenceIfValid_Unchecked(entityReferenceString) ==
  /\ pc = "idle"
  /\ call' = Call("createEntityReferenceIfValid", "", 0, 0, 0, entityReferenceString, "")
  /\ prefixAtEntry' = entityReferencePrefix_
  /\ trace' = <<>>
  /\ ret' = Return(Some(entityReferenceString))
  /\ NoBatchObservations
  /\ UNCHANGED <<entityReferencePrefix_, pc>>

CreateEntityReferenceIfValid(entityReferenceString) ==
  /\ pc = "idle"
  /\ call' = Call("createEntityReferenceIfValid", "", 0, 0, 0, entityReferenceString, "")
  /\ prefixAtEntry' = entityReferencePrefix_
  /\ \E pluginAnswer \in BOOLEAN :
       LET r == isEntityReferenceString(entityReferencePrefix_, entityReferenceString,
                                        pluginAnswer)
       IN /\ trace' = r.events
          /\ ret' = IF ~r.value THEN Return(NullOpt)
                                ELSE Return(Some(entityReferenceString))
  /\ NoBatchObservations
  /\ UNCHANGED <<entityReferencePrefix_, pc>>

\* ------------------------------------------------------------ Context calls
\* A context is modelled by its managerState handle (NoState when unset).
CreateContext ==
  /\ pc = "idle"
  /\ call' = Call("createContext", "", 0, 0, 0, <<>>, "")
  /\ prefixAtEntry' = entityReferencePrefix_
  /\ \E stateful \in BOOLEAN :
       IF stateful
         THEN \E state \in States :
                /\ trace' = <<HasCapabilityEv(kStatefulContexts, TRUE),
                              Ev("plugin.createState", state, <<>>)>>
                /\ ret' = Return(state)
         ELSE /\ trace' = <<HasCapabilityEv(kStatefulContexts, FALSE)>>
              /\ ret' = Return(NoState)
  /\ NoBatchObservations
  /\ UNCHANGED <<entityReferencePrefix_, pc>>

CreateChildContext(parentState) ==
  /\ pc = "idle"
  /\ call' = Call("createChildContext", "", 0, 0, 0, <<>>, parentState)
  /\ prefixAtEntry' = entityReferencePrefix_
  /\ IF parentState # NoState
       THEN \E state \in States :
              /\ trace' = <<Ev("plugin.createChildState", state, <<parentState>>)>>
              /\ ret' = Return(state)
       ELSE /\ trace' = <<>>
            /\ ret' = Return(NoState)
  /\ NoBatchObservations
  /\ UNCHANGED <<entityReferencePrefix_, pc>>

PersistenceTokenForContext(contextState) ==
  /\ pc = "idle"
  /\ call' = Call("persistenceTokenForContext", "", 0, 0, 0, <<>>, contextState)
  /\ prefixAtEntry' = entityReferencePrefix_
  /\ IF contextState # NoState
       THEN \E token \in Tokens :
              /\ trace' = <<Ev("plugin.persistenceTokenForState", token, <<contextState>>)>>
              /\ ret' = Return(token)
       ELSE /\ trace' = <<>>
            /\ ret' = Return(EmptyToken)
  /\ NoBatchObservations
  /\ UNCHANGED <<entityReferencePrefix_, pc>>

\* Faulty variant of ContextFromPersistenceToken: the plugin is asked for the
\* state of the empty token too.
ContextFromPersistenceToken_AlwaysAsks(token) ==
  /\ pc = "idle"
  /\ call' = Call("contextFromPersistenceToken", "", 0, 0, 0, <<>>, token)
  /\ prefixAtEntry' = entityReferencePrefix_
  /\ \E state \in States \cup {NoState} :
       /\ trace' = <<Ev("plugin.stateFromPersistenceToken", state, <<token>>)>>
       /\ ret' = Return(state)
  /\ NoBatchObservations
  /\ UNCHANGED <<entityReferencePrefix_, pc>>

ContextFromPersistenceToken(token) ==
  /\ pc = "idle"
  /\ call' = Call("contextFromPersistenceToken", "", 0, 0, 0, <<>>, token)
  /\ prefixAtEntry' = entityReferencePrefix_
  /\ IF token # EmptyToken
       THEN \E state \in States \cup {NoState} :
              /\ trace' = <<Ev("plugin.stateFromPersistenceToken", state, <<token>>)>>
              /\ ret' = Return(state)
       ELSE /\ trace' = <<>>
            /\ ret' = Return(NoState)
  /\ NoBatchObservations
  /\ UNCHANGED <<entityReferencePrefix_, pc>>


\* ------------------------------------------------------------- batch calls
\* Entry points of the facade that end in a plugin batch method.
BatchOps ==
  {"entityExists", "entityTraits", "resolve", "defaultEntityReference",
   "getWithRelationship", "getWithRelationships", "preflight", "register_"}
RelationshipOps == {"getWithRelationship", "getWithRelationships"}
SingularShapes == {"singularThrow", "singularVariant"}
PluralShapes == {"pluralThrow", "pluralVariant"}
ThrowShapes == {"singularThrow", "pluralThrow"}
VariantShapes == {"singularVariant", "pluralVariant"}

\* The plugin method an entry point ends in, as recorded in the trace.
PluginMethod(op, pageSize) ==
  Ev("plugin.batch", op,
     IF op \in {"getWithRelationship", "getWithRelationships"} THEN <<pageSize>> ELSE <<>>)

\* std::variant<errors::BatchElementError, T>: its two alternatives, and the
\* value-initialised variant (the first alternative, default-constructed).
ErrorAlt(e) == [alt |-> "error", val |-> e]
ValueAlt(v) == [alt |-> "value", val |-> v]
DefaultVariant == ErrorAlt("")

\* What a derived shape's local aggregate holds before any callback ran: a
\* null TraitsDataPtr (resolve) or EntityReference{""} in the throw shapes,
\* a value-initialised variant in the variant shapes.
InitialElement(op, shape) ==
  IF shape \in VariantShapes THEN DefaultVariant
  ELSE IF op = "resolve" THEN "nullptr" ELSE ""

\* The indices of the local aggregate: one slot in the singular shapes, a
\* vector resized to the number of entity references in the plural shapes.
ResultIndices(shape, n) ==
  IF shape \in SingularShapes THEN {0}
  ELSE IF shape \in PluralShapes THEN 0..(n - 1)
  ELSE {}

\* hostApi::EntityReferencePager::make(pagerInterface, hostSession)
EntityReferencePager_make(pagerInterface) ==
  [type |-> "EntityReferencePager", pagerInterface |-> pagerInterface]

NoViolation == [throws |-> FALSE, msg |-> <<>>]

\* Faulty variant of PageSizeCheck: any page size is let through.
PageSizeCheck_Absent(pageSize) == NoViolation

\* if (pageSize == 0) throw InputValidationException
PageSizeCheck(pageSize) ==
  IF pageSize = 0
    THEN [throws |-> TRUE, msg |-> <<"pageSize must be greater than zero.">>]
    ELSE NoViolation

\* Faulty variant of LengthCheck: only too few traits are rejected.
LengthCheck_OnlyShorter(n, m, what) ==
  IF n > m
    THEN [throws |-> TRUE,
          msg |-> ((<<"Parameter lists must be of the same length: ">> \o to_string(n))
                     \o <<" entity references vs. ">>) \o to_string(m) \o <<what>>]
    ELSE NoViolation

\* if (entityReferences.size() != traits.size()) throw InputValidationException
LengthCheck(n, m, what) ==
  IF n # m
    THEN [throws |-> TRUE,
          msg |-> ((<<"Parameter lists must be of the same length: ">> \o to_string(n))
                     \o <<" entity references vs. ">>) \o to_string(m) \o <<what>>]
    ELSE NoViolation

\* Entering a batch entry point: a derived shape sets up its local aggregate,
\* the callbacks overload validates the shape of its input and either throws
\* or calls the plugin's batch method, which then runs (pc = "inPlugin").
Forward(op, shape, n, m, pageSize, check) ==
  /\ pc = "idle"
  /\ call' = Call(op, shape, n, m, pageSize, <<>>, "")
  /\ prefixAtEntry' = entityReferencePrefix_
  /\ reported' = [i \in 0..(n - 1) |-> NoOutcome]
  /\ firstError' = NoFirstError
  /\ successCb' = [i \in 0..(n - 1) |-> <<>>]
  /\ errorCb' = [i \in 0..(n - 1) |-> <<>>]
  /\ result' = [i \in ResultIndices(shape, n) |-> InitialElement(op, shape)]
  /\ IF check.throws
       THEN /\ trace' = <<>>
            /\ ret' = Throw("InputValidationException", check.msg)
            /\ pc' = "idle"
       ELSE /\ trace' = <<PluginMethod(op, pageSize)>>
            /\ ret' = NoRet
            /\ pc' = "inPlugin"
  /\ UNCHANGED entityReferencePrefix_

\* Batch-with-callbacks entry points.
EntityExists(n) == Forward("entityExists", "callbacks", n, n, 0, NoViolation)

EntityTraits(n) == Forward("entityTraits", "callbacks", n, n, 0, NoViolation)

Resolve(n) == Forward("resolve", "callbacks", n, n, 0, NoViolation)

DefaultEntityReference(n) ==
  Forward("defaultEntityReference", "callbacks", n, n, 0, NoViolation)

GetWithRelationship(n, pageSize) ==
  Forward("getWithRelationship", "callbacks", n, n, pageSize, PageSizeCheck(pageSize))

GetWithRelationships(n, pageSize) ==
  Forward("getWithRelationships", "callbacks", n, n, pageSize, PageSizeCheck(pageSize))

Preflight(n, m) ==
  Forward("preflight", "callbacks", n, m, 0, LengthCheck(n, m, " traits hints."))

Register_(n, m) ==
  Forward("register_", "callbacks", n, m, 0, LengthCheck(n, m, " traits datas."))

\* Derived shapes: singular ones pass the one-element lists {entityReference}
\* (and {traitsData}), plural ones pass their sequences on.
ResolveSingular(shape) == Forward("resolve", shape, 1, 1, 0, NoViolation)

ResolvePlural(shape, n) == Forward("resolve", shape, n, n, 0, NoViolation)

PreflightSingular(shape) ==
  Forward("preflight", shape, 1, 1, 0, LengthCheck(1, 1, " traits hints."))

PreflightPlural(shape, n, m) ==
  Forward("preflight", shape, n, m, 0, LengthCheck(n, m, " traits hints."))

RegisterSingular(shape) ==
  Forward("register_", shape, 1, 1, 0, LengthCheck(1, 1, " traits datas."))

RegisterPlural(shape, n, m) ==
  Forward("register_", shape, n, m, 0, LengthCheck(n, m, " traits datas."))

\* Faulty variant of successCallback: the plural variant closure stores each
\* value in the first slot not yet written (arrival order), not at index.
successCallback_ArrivalOrder(c, index, value) ==
  IF c.shape = "callbacks"
    THEN [successCb |->
            [successCb EXCEPT ![index] =
               Append(@, IF c.op \in RelationshipOps
                           THEN EntityReferencePager_make(value) ELSE value)],
          result |-> result]
  ELSE IF c.shape = "singularThrow"
    THEN [successCb |-> successCb, result |-> [result EXCEPT ![0] = value]]
  ELSE IF c.shape = "singularVariant"
    THEN [successCb |-> successCb, result |-> [result EXCEPT ![0] = ValueAlt(value)]]
  ELSE IF c.shape = "pluralThrow"
    THEN [successCb |-> successCb, result |-> [result EXCEPT ![index] = value]]
  ELSE [successCb |-> successCb,
        result |-> [result EXCEPT
                      ![Cardinality({i \in DOMAIN reported : reported[i] # NoOutcome})] =
                        ValueAlt(value)]]

\* Faulty variant of successCallback: convertingPagerSuccessCallback forwards
\* the wrapped pager with index 0 instead of idx.
successCallback_PagerIndexLost(c, index, value) ==
  IF c.shape = "callbacks"
    THEN [successCb |->
            IF c.op \in RelationshipOps
              THEN [successCb EXCEPT ![0] = Append(@, EntityReferencePager_make(value))]
              ELSE [successCb EXCEPT ![index] = Append(@, value)],
          result |-> result]
  ELSE IF c.shape = "singularThrow"
    THEN [successCb |-> successCb, result |-> [result EXCEPT ![0] = value]]
  ELSE IF c.shape = "singularVariant"
    THEN [successCb |-> successCb, result |-> [result EXCEPT ![0] = ValueAlt(value)]]
  ELSE IF c.shape = "pluralThrow"
    THEN [successCb |-> successCb, result |-> [result EXCEPT ![index] = value]]
  ELSE [successCb |-> successCb, result |-> [result EXCEPT ![index] = ValueAlt(value)]]

\* The success callback the plugin was handed, invoked with (index, value):
\* the host's own callback (behind convertingPagerSuccessCallback for the
\* relationship queries), or the aggregation closure of a derived shape.
successCallback(c, index, value) ==
  IF c.shape = "callbacks"
    THEN [successCb |->
            [successCb EXCEPT ![index] =
               Append(@, IF c.op \in RelationshipOps
                           THEN EntityReferencePager_make(value) ELSE value)],
          result |-> result]
  ELSE IF c.shape = "singularThrow"
    THEN [successCb |-> successCb, result |-> [result EXCEPT ![0] = value]]
  ELSE IF c.shape = "singularVariant"
    THEN [successCb |-> successCb, result |-> [result EXCEPT ![0] = ValueAlt(value)]]
  ELSE IF c.shape = "pluralThrow"
    THEN [successCb |-> successCb, result |-> [result EXCEPT ![index] = value]]
  ELSE [successCb |-> successCb, result |-> [result EXCEPT ![index] = ValueAlt(value)]]

\* Faulty variant of BatchElementException: the index is not passed on.
BatchElementException_IndexZero(index, error) ==
  [kind |-> "throw", exc |-> "BatchElementException", index |-> 0, error |-> error,
   msg |-> <<>>, value |-> <<>>]

\* throw errors::BatchElementException(index, std::move(error), msg)
BatchElementException(index, error) ==
  [kind |-> "throw", exc |-> "BatchElementException", index |-> index, error |-> error,
   msg |-> <<>>, value |-> <<>>]

\* Faulty variant of errorCallback: the singular variant closure throws as the
\* singular throw closure does.
errorCallback_SingularAlwaysThrows(c, index, error) ==
  IF c.shape = "callbacks"
    THEN [throws |-> FALSE, exc |-> NoRet,
          errorCb |-> [errorCb EXCEPT ![index] = Append(@, error)],
          result |-> result]
  ELSE IF c.shape \in ThrowShapes \/ c.shape = "singularVariant"
    THEN [throws |-> TRUE, exc |-> BatchElementException(index, error),
          errorCb |-> errorCb, result |-> result]
  ELSE [throws |-> FALSE, exc |-> NoRet, errorCb |-> errorCb,
        result |-> [result EXCEPT ![index] = ErrorAlt(error)]]

\* Faulty variant of errorCallback: the plural variant closure stores the
\* error and then throws it as the plural throw closure does.
errorCallback_PluralVariantThrows(c, index, error) ==
  IF c.shape = "callbacks"
    THEN [throws |-> FALSE, exc |-> NoRet,
          errorCb |-> [errorCb EXCEPT ![index] = Append(@, error)],
          result |-> result]
  ELSE IF c.shape \in ThrowShapes
    THEN [throws |-> TRUE, exc |-> BatchElementException(index, error),
          errorCb |-> errorCb, result |-> result]
  ELSE IF c.shape = "singularVariant"
    THEN [throws |-> FALSE, exc |-> NoRet, errorCb |-> errorCb,
          result |-> [result EXCEPT ![0] = ErrorAlt(error)]]
  ELSE [throws |-> TRUE, exc |-> BatchElementException(index, error),
        errorCb |-> errorCb,
        result |-> [result EXCEPT ![index] = ErrorAlt(error)]]

\* The error callback the plugin was handed, invoked with (index, error): the
\* host's own callback, or the closure of a derived shape, which throws a
\* BatchElementException (throw shapes) or stores the error (variant shapes).
errorCallback(c, index, error) ==
  IF c.shape = "callbacks"
    THEN [throws |-> FALSE, exc |-> NoRet,
          errorCb |-> [errorCb EXCEPT ![index] = Append(@, error)],
          result |-> result]
  ELSE IF c.shape \in ThrowShapes
    THEN [throws |-> TRUE, exc |-> BatchElementException(index, error),
          errorCb |-> errorCb, result |-> result]
  ELSE IF c.shape = "singularVariant"
    THEN [throws |-> FALSE, exc |-> NoRet, errorCb |-> errorCb,
          result |-> [result EXCEPT ![0] = ErrorAlt(error)]]
  ELSE [throws |-> FALSE, exc |-> NoRet, errorCb |-> errorCb,
        result |-> [result EXCEPT ![index] = ErrorAlt(error)]]

\* The plugin reports success for an index it has not reported yet.
PluginInvokesSuccessCallback(index, value) ==
  /\ pc = "inPlugin"
  /\ index \in DOMAIN reported
  /\ reported[index] = NoOutcome
  /\ reported' = [reported EXCEPT ![index] = Success(value)]
  /\ LET after == successCallback(call, index, value)
     IN /\ successCb' = after.successCb
        /\ result' = after.result
  /\ UNCHANGED <<entityReferencePrefix_, pc, call, prefixAtEntry, trace,
                 firstError, errorCb, ret>>

\* The plugin reports an error for an index it has not reported yet.  An
\* exception thrown by the callback unwinds through the plugin's batch method
\* and out of the facade call.
PluginInvokesErrorCallback(index, error) ==
  /\ pc = "inPlugin"
  /\ index \in DOMAIN reported
  /\ reported[index] = NoOutcome
  /\ reported' = [reported EXCEPT ![index] = Failure(error)]
  /\ firstError' = IF firstError = NoFirstError
                     THEN [index |-> index, error |-> error] ELSE firstError
  /\ LET after == errorCallback(call, index, error)
     IN /\ errorCb' = after.errorCb
        /\ result' = after.result
        /\ IF after.throws
             THEN /\ ret' = after.exc
                  /\ pc' = "idle"
             ELSE /\ ret' = ret
                  /\ pc' = pc
  /\ UNCHANGED <<entityReferencePrefix_, call, prefixAtEntry, trace, successCb>>

\* What the entry point returns once the plugin's batch method has returned.
ReturnValue(c) ==
  IF c.shape \in SingularShapes THEN result[0]
  ELSE IF c.shape \in PluralShapes THEN result
  ELSE <<>>

\* The plugin has reported every index; its batch method and the facade's
\* entry point return.
PluginReturns ==
  /\ pc = "inPlugin"
  /\ \A i \in DOMAIN reported : reported[i] # NoOutcome
  /\ ret' = Return(ReturnValue(call))
  /\ pc' = "idle"
  /\ UNCHANGED <<entityReferencePrefix_, call, prefixAtEntry, trace, reported,
                 firstError, successCb, errorCb, result>>

\* -------------------------------------------------------------------- Spec
Lengths == 0..MaxBatch
PageSizes == 0..MaxPageSize

Next ==
  \/ Initialize_plugin
  \/ Initialize_verify
  \/ Initialize_prefix
  \/ FlushCaches
  \/ \E s \in Strs : IsEntityReferenceString(s)
  \/ \E s \in Strs : CreateEntityReference(s)
  \/ \E s \in Strs : CreateEntityReferenceIfValid(s)
  \/ CreateContext
  \/ \E state \in States \cup {NoState} : CreateChildContext(state)
  \/ \E state \in States \cup {NoState} : PersistenceTokenForContext(state)
  \/ \E token \in Tokens : ContextFromPersistenceToken(token)
  \/ \E n \in Lengths : EntityExists(n)
  \/ \E n \in Lengths : EntityTraits(n)
  \/ \E n \in Lengths : Resolve(n)
  \/ \E n \in Lengths : DefaultEntityReference(n)
  \/ \E n \in Lengths, pageSize \in PageSizes : GetWithRelationship(n, pageSize)
  \/ \E n \in Lengths, pageSize \in PageSizes : GetWithRelationships(n, pageSize)
  \/ \E n \in Lengths, m \in Lengths : Preflight(n, m)
  \/ \E n \in Lengths, m \in Lengths : Register_(n, m)
  \/ \E shape \in SingularShapes : ResolveSingular(shape)
  \/ \E shape \in PluralShapes, n \in Lengths : ResolvePlural(shape, n)
  \/ \E shape \in SingularShapes : PreflightSingular(shape)
  \/ \E shape \in PluralShapes, n \in Lengths, m \in Lengths : PreflightPlural(shape, n, m)
  \/ \E shape \in SingularShapes : RegisterSingular(shape)
  \/ \E shape \in PluralShapes, n \in Lengths, m \in Lengths : RegisterPlural(shape, n, m)
  \/ \E i \in 0..(MaxBatch - 1), v \in Values : PluginInvokesSuccessCallback(i, v)
  \/ \E i \in 0..(MaxBatch - 1), e \in Errors : PluginInvokesErrorCallback(i, e)
  \/ PluginReturns

Spec == Init /\ [][Next]_vars


\* ================================================================== claims
\* The number of times a callback of the host ran with index i.
Invocations(i) == Len(successCb[i]) + Len(errorCb[i])

\* What the host's success callback must receive for a value the plugin
\* reported: for the relationship queries a host-side pager around the
\* plugin's pager interface, otherwise the value itself.
HostSees(op, value) ==
  IF op \in RelationshipOps
    THEN <<[type |-> "EntityReferencePager", pagerInterface |-> value]>>
    ELSE <<value>>

\* C1: in a batch-with-callbacks call of any of the eight batch operations,
\* every index the plugin has reported has reached exactly one of the host's
\* two callbacks, exactly once, under its own index and with the reported
\* payload; an index not yet reported has reached none; so when the call
\* returns the callbacks have run exactly n times, once per index 0..n-1.
C1_ExactlyOncePerIndex ==
  (call.op \in BatchOps /\ call.shape = "callbacks") =>
    /\ DOMAIN successCb = DOMAIN reported
    /\ DOMAIN errorCb = DOMAIN reported
    /\ \A i \in DOMAIN reported :
         /\ reported[i].kind = "none" => Invocations(i) = 0
         /\ reported[i].kind = "success" =>
              successCb[i] = HostSees(call.op, reported[i].val) /\ errorCb[i] = <<>>
         /\ reported[i].kind = "error" =>
              errorCb[i] = <<reported[i].val>> /\ successCb[i] = <<>>
    /\ ret.kind = "return" =>
         /\ DOMAIN reported = 0..(call.n - 1)
         /\ \A i \in 0..(call.n - 1) : Invocations(i) = 1

\* A relationship query over at least two references has returned, a later
\* index having succeeded and another index having failed.
C1_Witness ==
  /\ call.op = "getWithRelationship"
  /\ call.shape = "callbacks"
  /\ ret.kind = "return"
  /\ call.n >= 2
  /\ reported[1].kind = "success"
  /\ reported[0].kind = "error"

\* C2: a preflight or register_ call, in whichever call shape, whose two
\* parallel sequences differ in length has ended with an
\* InputValidationException, has not called the plugin and has invoked no
\* callback (neither the host's nor an aggregation closure).
C2_LengthMismatchRejected ==
  (call.op \in {"preflight", "register_"} /\ call.n # call.m) =>
    /\ pc = "idle"
    /\ ret.kind = "throw"
    /\ ret.exc = "InputValidationException"
    /\ trace = <<>>
    /\ \A i \in DOMAIN reported :
         reported[i] = NoOutcome /\ successCb[i] = <<>> /\ errorCb[i] = <<>>
    /\ \A i \in DOMAIN result : result[i] = InitialElement(call.op, call.shape)

\* A plural-variant register_ with fewer references than traits was rejected.
C2_Witness ==
  /\ call.op = "register_"
  /\ call.shape = "pluralVariant"
  /\ call.n < call.m
  /\ ret.exc = "InputValidationException"


\* The capability queries of the current call, in the order they were made,
\* and the capabilities the plugin answered it does not have.
IsCapabilityQuery(e) == e.ev = "plugin.hasCapability"
CapabilityQueries == SelectSeq(trace, IsCapabilityQuery)
Lacking ==
  {CapabilityQueries[i].detail :
     i \in {j \in 1..Len(CapabilityQueries) : CapabilityQueries[j].data = <<"false">>}}
IsLacking(c) == c \in Lacking

\* The capability names a ConfigurationException message lists: the pieces
\* after the three leading ones, without the separators between them.
ListedCapabilities(msg) ==
  [k \in 1..((Len(msg) - 2) \div 2) |-> msg[2 + 2 * k]]

\* C3: once initialize has run verifyRequiredCapabilities, a
\* ConfigurationException has been thrown if and only if the plugin answered
\* that it lacks at least one of the three mandatory capabilities; its
\* message then names the plugin's identifier and lists exactly the lacking
\* mandatory capabilities, all of them, in the checked order, joined by ", ";
\* when none is lacking the call goes on without error.
C3_ConfigurationErrorIffMissing ==
  (call.op = "initialize" /\ pc # "initialize_verify") =>
    LET missing == SelectSeq(kRequiredCapabilities, IsLacking)
    IN /\ {CapabilityQueries[i].detail : i \in 1..Len(CapabilityQueries)}
            = {kRequiredCapabilities[i] : i \in 1..Len(kRequiredCapabilities)}
       /\ (ret.exc = "ConfigurationException") <=> (Len(missing) > 0)
       /\ Len(missing) > 0 =>
            /\ pc = "idle"
            /\ ret.kind = "throw"
            /\ Len(ret.msg) = 2 + 2 * Len(missing)
            /\ ret.msg[2] = PluginIdentifier
            /\ ListedCapabilities(ret.msg) = missing
            /\ \A k \in 1..(Len(missing) - 1) : ret.msg[3 + 2 * k] = ", "
       /\ Len(missing) = 0 =>
            /\ ret.kind # "throw"
            /\ pc = "initialize_prefix" \/ ret.kind = "return"

\* initialize failed on a plugin lacking the last two mandatory capabilities.
C3_Witness ==
  /\ call.op = "initialize"
  /\ ret.exc = "ConfigurationException"
  /\ Lacking = {kManagementPolicyQueries, kEntityTraitIntrospection}

\* Positions in the trace of the current call at which an event of a kind is.
Positions(name) == {i \in 1..Len(trace) : trace[i].ev = name}
IsLoggerCall(e) == e.ev \in {"logger.debugApi", "logger.warning"}

\* C4: in every initialize call the plugin's initialize is the first thing
\* called, every capability query comes after it, and the info dictionary is
\* read (and the prefix assigned) only after all three mandatory capabilities
\* were queried; until the info dictionary is read the prefix is the one held
\* on entry; and a call whose capability verification failed ends with the
\* ConfigurationException, never reads the info dictionary, logs nothing and
\* leaves the prefix as it was on entry.
C4_InitializeOrder ==
  call.op = "initialize" =>
    /\ Positions("plugin.initialize") = {1}
    /\ \A i \in Positions("plugin.info") :
         \A c \in {kRequiredCapabilities[k] : k \in 1..Len(kRequiredCapabilities)} :
           \E j \in Positions("plugin.hasCapability") : j < i /\ trace[j].detail = c
    /\ \A i \in Positions("plugin.info"), j \in Positions("plugin.hasCapability") : j < i
    /\ Positions("plugin.info") = {} =>
         /\ entityReferencePrefix_ = prefixAtEntry
         /\ SelectSeq(trace, IsLoggerCall) = <<>>
    /\ Cardinality(Positions("plugin.info")) <= 1
    /\ (Lacking \cap {kRequiredCapabilities[k] : k \in 1..Len(kRequiredCapabilities)}) # {} =>
         /\ pc = "idle"
         /\ ret.kind = "throw"
         /\ ret.exc = "ConfigurationException"
         /\ Positions("plugin.info") = {}
         /\ entityReferencePrefix_ = prefixAtEntry

\* A second initialize failed verification while a prefix was cached.
C4_Witness ==
  /\ call.op = "initialize"
  /\ ret.exc = "ConfigurationException"
  /\ prefixAtEntry.has
  /\ entityReferencePrefix_ = prefixAtEntry

\* s starts with p.
StartsWith(s, p) == Len(p) <= Len(s) /\ \A i \in 1..Len(p) : s[i] = p[i]

IsClassification(e) == e.ev = "plugin.isEntityReferenceString"

\* C5: isEntityReferenceString(s) with a cached prefix returns whether s starts
\* with the prefix and does not call the plugin; with no cached prefix it
\* calls the plugin's isEntityReferenceString exactly once, with s, and
\* returns the plugin's answer.
C5_Classification ==
  call.op = "isEntityReferenceString" =>
    LET delegated == SelectSeq(trace, IsClassification)
    IN /\ ret.kind = "return"
       /\ entityReferencePrefix_ = prefixAtEntry
       /\ entityReferencePrefix_.has =>
            /\ ret.value = StartsWith(call.arg, entityReferencePrefix_.val)
            /\ trace = <<>>
       /\ ~entityReferencePrefix_.has =>
            /\ Len(delegated) = 1
            /\ Len(trace) = 1
            /\ delegated[1].data = call.arg
            /\ ret.value = (delegated[1].detail = "true")

\* With a one-character prefix cached, a string that contains the prefix but
\* does not start with it was classified as no entity reference.
C5_Witness ==
  /\ call.op = "isEntityReferenceString"
  /\ entityReferencePrefix_.has
  /\ Len(entityReferencePrefix_.val) = 1
  /\ Len(call.arg) = 2
  /\ call.arg[2] = entityReferencePrefix_.val[1]
  /\ call.arg[1] # entityReferencePrefix_.val[1]
  /\ ret.value = FALSE


\* C6 as stated: once the prefix cache holds a value no step changes it, and
\* only initialize ever writes it.
C6_WrittenOnce ==
  [][/\ entityReferencePrefix_.has => entityReferencePrefix_' = entityReferencePrefix_
     /\ entityReferencePrefix_' # entityReferencePrefix_ => call'.op = "initialize"]_vars

\* C6 (amended): the prefix cache is written only by initialize, in the step
\* that follows a passed capability verification and ends the call normally
\* (each such step assigns it anew from the info dictionary it reads, also
\* when a value was cached before); no other operation (flushCaches,
\* classification, reference creation, batch calls, context calls) and no
\* failed initialize changes it.
C6_OnlyInitializeWrites ==
  [][entityReferencePrefix_' # entityReferencePrefix_ =>
       /\ pc = "initialize_prefix"
       /\ call'.op = "initialize"
       /\ pc' = "idle"
       /\ ret'.kind = "return"
       /\ \E i \in 1..Len(trace') :
            /\ i > Len(trace)
            /\ trace'[i].ev = "plugin.info"
            /\ entityReferencePrefix_' =
                 (IF trace'[i].detail = "str" THEN Some(trace'[i].data) ELSE NullOpt)]_vars

\* A later initialize replaced a cached prefix by a different cached prefix.
C6_Witness ==
  /\ call.op = "initialize"
  /\ ret.kind = "return"
  /\ prefixAtEntry.has
  /\ entityReferencePrefix_.has
  /\ entityReferencePrefix_ # prefixAtEntry

IsInfoRead(e) == e.ev = "plugin.info"

\* C7: after an initialize that returned, the info dictionary was read once
\* and the prefix cache follows from the value at the prefix key: a string is
\* cached and one debug message (carrying it) is logged; a value of another
\* type leaves the cache unset, logs one warning and raises nothing; an
\* absent key leaves the cache unset and logs nothing.
C7_PrefixFromInfo ==
  (call.op = "initialize" /\ ret.kind = "return") =>
    LET reads == SelectSeq(trace, IsInfoRead)
        logged == SelectSeq(trace, IsLoggerCall)
    IN /\ Len(reads) = 1
       /\ reads[1].detail = "str" =>
            /\ entityReferencePrefix_ = Some(reads[1].data)
            /\ Len(logged) = 1
            /\ logged[1].ev = "logger.debugApi"
            /\ logged[1].data = reads[1].data
       /\ reads[1].detail \in InfoKinds \ {"str", "absent"} =>
            /\ entityReferencePrefix_ = NullOpt
            /\ Len(logged) = 1
            /\ logged[1].ev = "logger.warning"
            /\ ret.exc = ""
       /\ reads[1].detail = "absent" =>
            /\ entityReferencePrefix_ = NullOpt
            /\ logged = <<>>

\* An initialize returned whose info dictionary held an integer at the prefix
\* key, a prefix having been cached before.
C7_Witness ==
  /\ call.op = "initialize"
  /\ ret.kind = "return"
  /\ prefixAtEntry.has
  /\ \E i \in 1..Len(trace) : trace[i].ev = "plugin.info" /\ trace[i].detail = "int"

\* The call's input had a valid shape (parallel sequences of equal length).
ValidShape == call.n = call.m

\* C8: a plural-throw resolve, preflight or register_ that has ended: if the
\* plugin invoked the error callback at all, the call threw a
\* BatchElementException carrying the index and error of the first such
\* invocation (which is also the last: the plugin is still running only while
\* no error was reported) and returned no sequence; otherwise it returned a
\* sequence of length n whose element i is the value reported for index i.
C8_PluralThrow ==
  (call.shape = "pluralThrow" /\ ValidShape) =>
    /\ pc = "inPlugin" => firstError = NoFirstError /\ ret.kind = "none"
    /\ (pc = "idle" /\ firstError # NoFirstError) =>
         /\ ret.kind = "throw"
         /\ ret.exc = "BatchElementException"
         /\ ret.index = firstError.index
         /\ ret.error = firstError.error
         /\ reported[ret.index] = Failure(ret.error)
         /\ ret.value = <<>>
    /\ (pc = "idle" /\ firstError = NoFirstError) =>
         /\ ret.kind = "return"
         /\ DOMAIN ret.value = 0..(call.n - 1)
         /\ \A i \in 0..(call.n - 1) :
              reported[i].kind = "success" /\ ret.value[i] = reported[i].val

\* A plural-throw resolve threw for index 1 after index 0 had succeeded.
C8_Witness ==
  /\ call.op = "resolve"
  /\ call.shape = "pluralThrow"
  /\ ret.kind = "throw"
  /\ ret.index = 1
  /\ reported[0].kind = "success"

\* The tagged union a plural-variant call must hold for a reported outcome.
VariantOf(outcome) ==
  IF outcome.kind = "success"
    THEN [alt |-> "value", val |-> outcome.val]
    ELSE [alt |-> "error", val |-> outcome.val]

\* C9: a plural-variant resolve, preflight or register_ with a valid shape
\* never throws, and when it has ended it returned a sequence of exactly n
\* tagged unions whose element i holds the outcome the plugin reported for
\* index i, in whatever order the plugin reported the indices.
C9_PluralVariant ==
  (call.shape = "pluralVariant" /\ ValidShape) =>
    /\ ret.kind # "throw"
    /\ pc = "idle" =>
         /\ ret.kind = "return"
         /\ DOMAIN ret.value = 0..(call.n - 1)
         /\ \A i \in 0..(call.n - 1) :
              reported[i] # NoOutcome /\ ret.value[i] = VariantOf(reported[i])

\* A plural-variant preflight returned after the plugin had reported an
\* error for index 1 before it reported a different error for index 0.
C9_Witness ==
  /\ call.op = "preflight"
  /\ call.shape = "pluralVariant"
  /\ ret.kind = "return"
  /\ firstError.index = 1
  /\ reported[0].kind = "error"
  /\ reported[0].val # reported[1].val

\* C10: a singular resolve, preflight or register_ makes one plugin batch
\* call over one element; when it has ended, a reported error made the throw
\* shape throw a BatchElementException carrying index 0 and that error and
\* made the variant shape return the error alternative, and a reported
\* success made the throw shape return the value and the variant shape return
\* it as the value alternative.
C10_Singular ==
  call.shape \in SingularShapes =>
    /\ call.n = 1
    /\ DOMAIN reported = {0}
    /\ trace = <<[ev |-> "plugin.batch", detail |-> call.op, data |-> <<>>]>>
    /\ pc = "idle" =>
         /\ reported[0] # NoOutcome
         /\ (reported[0].kind = "error" /\ call.shape = "singularThrow") =>
              /\ ret.kind = "throw"
              /\ ret.exc = "BatchElementException"
              /\ ret.index = 0
              /\ ret.error = reported[0].val
         /\ (reported[0].kind = "error" /\ call.shape = "singularVariant") =>
              /\ ret.kind = "return"
              /\ ret.value = [alt |-> "error", val |-> reported[0].val]
         /\ (reported[0].kind = "success" /\ call.shape = "singularThrow") =>
              /\ ret.kind = "return"
              /\ ret.value = reported[0].val
         /\ (reported[0].kind = "success" /\ call.shape = "singularVariant") =>
              /\ ret.kind = "return"
              /\ ret.value = [alt |-> "value", val |-> reported[0].val]

\* A singular-variant register_ returned the error the plugin reported.
C10_Witness ==
  /\ call.op = "register_"
  /\ call.shape = "singularVariant"
  /\ ret.kind = "return"
  /\ reported[0].kind = "error"


\* The plugin's batch method was called in the current call.
PluginCalled == \E i \in 1..Len(trace) : trace[i].ev = "plugin.batch"

\* C11 as stated: in every batch call this layer issues, the derived shapes'
\* included, an error reported for one index does not stop the others: when
\* the call has ended every index has received its callback, and every
\* failed index was reported through the error callback exactly once.
C11_NeverAborts ==
  (call.op \in BatchOps /\ PluginCalled /\ pc = "idle") =>
    /\ \A i \in DOMAIN reported : reported[i] # NoOutcome
    /\ call.shape = "callbacks" =>
         \A i \in DOMAIN reported :
           reported[i].kind = "error" => errorCb[i] = <<reported[i].val>>

\* C11 (amended): in the batch-with-callbacks shape and in the variant
\* shapes an error reported for one index leaves the plugin's batch method
\* running, so that when the call has ended every index has received its
\* callback, each failed index exactly one error (handed to the host's error
\* callback, or stored as the error alternative of its element); in the
\* singular throw shape the one index is the failed one; in the plural throw
\* shape the first error callback ends the call, and exactly the indices
\* reported before it have received a callback.
C11_AbortsOnlyWhenThrowing ==
  (call.op \in BatchOps /\ PluginCalled) =>
    /\ (call.shape \notin ThrowShapes /\ firstError # NoFirstError) =>
         /\ ret.kind # "throw"
         /\ pc = "inPlugin" \/ \A i \in DOMAIN reported : reported[i] # NoOutcome
    /\ (call.shape # "pluralThrow" /\ pc = "idle") =>
         \A i \in DOMAIN reported : reported[i] # NoOutcome
    /\ call.shape = "callbacks" =>
         \A i \in DOMAIN reported :
           reported[i].kind = "error" => errorCb[i] = <<reported[i].val>>
    /\ call.shape \in VariantShapes =>
         \A i \in DOMAIN reported :
           reported[i].kind = "error" =>
             result[i] = [alt |-> "error", val |-> reported[i].val]
    /\ (call.shape = "pluralThrow" /\ firstError # NoFirstError) =>
         /\ pc = "idle"
         /\ ret.kind = "throw"
         /\ \A i \in DOMAIN reported :
              reported[i].kind = "error" => i = firstError.index

\* A plural-variant resolve is still in the plugin after the error callback
\* ran for index 0, index 1 not being reported yet.
C11_Witness ==
  /\ call.op = "resolve"
  /\ call.shape = "pluralVariant"
  /\ pc = "inPlugin"
  /\ call.n >= 2
  /\ reported[0].kind = "error"
  /\ reported[1] = NoOutcome


\* What isEntityReferenceString answers for the string of the current call,
\* told from the facade's state and the plugin's recorded answer: a prefix
\* match when a prefix is cached, the plugin's answer otherwise.
ClassifiedAsReference ==
  IF entityReferencePrefix_.has
    THEN StartsWith(call.arg, entityReferencePrefix_.val)
    ELSE \E i \in 1..Len(trace) :
           /\ trace[i].ev = "plugin.isEntityReferenceString"
           /\ trace[i].data = call.arg
           /\ trace[i].detail = "true"

\* C12: createEntityReference(s) and createEntityReferenceIfValid(s) classify
\* s as isEntityReferenceString does (by the cached prefix without a plugin
\* call, else by one call to the plugin): when s is no entity reference
\* createEntityReference throws an InputValidationException whose message
\* ends in s and createEntityReferenceIfValid returns an empty optional
\* without throwing; when it is one, both return a reference wrapping s.
C12_CreateAgreesWithClassification ==
  (call.op \in {"createEntityReference", "createEntityReferenceIfValid"}) =>
    /\ pc = "idle"
    /\ entityReferencePrefix_ = prefixAtEntry
    /\ Len(trace) = (IF entityReferencePrefix_.has THEN 0 ELSE 1)
    /\ \A i \in 1..Len(trace) :
         trace[i].ev = "plugin.isEntityReferenceString" /\ trace[i].data = call.arg
    /\ ClassifiedAsReference =>
         /\ ret.kind = "return"
         /\ ret.value = [has |-> TRUE, val |-> call.arg]
    /\ (~ClassifiedAsReference /\ call.op = "createEntityReference") =>
         /\ ret.kind = "throw"
         /\ ret.exc = "InputValidationException"
         /\ Len(ret.msg) = 2
         /\ ret.msg[1] = "Invalid entity reference: "
         /\ ret.msg[2] = call.arg
    /\ (~ClassifiedAsReference /\ call.op = "createEntityReferenceIfValid") =>
         /\ ret.kind = "return"
         /\ ret.value = [has |-> FALSE, val |-> <<>>]

\* With a one-character prefix cached, createEntityReferenceIfValid returned
\* nothing for a string that holds the prefix only at its second position.
C12_Witness ==
  /\ call.op = "createEntityReferenceIfValid"
  /\ entityReferencePrefix_.has
  /\ Len(entityReferencePrefix_.val) = 1
  /\ Len(call.arg) = 2
  /\ call.arg[2] = entityReferencePrefix_.val[1]
  /\ call.arg[1] # entityReferencePrefix_.val[1]
  /\ ret.value = [has |-> FALSE, val |-> <<>>]


\* C13: getWithRelationship and getWithRelationships with a page size of zero
\* end with an InputValidationException without having called the plugin or
\* invoked any callback; with a page size above zero they call the plugin's
\* relationship method, once, with that same page size.
C13_PageSize ==
  (call.op \in {"getWithRelationship", "getWithRelationships"}) =>
    /\ call.pageSize = 0 =>
         /\ pc = "idle"
         /\ ret.kind = "throw"
         /\ ret.exc = "InputValidationException"
         /\ ret.msg = <<"pageSize must be greater than zero.">>
         /\ trace = <<>>
         /\ \A i \in DOMAIN reported :
              reported[i] = NoOutcome /\ successCb[i] = <<>> /\ errorCb[i] = <<>>
    /\ call.pageSize > 0 =>
         /\ ret.kind # "throw"
         /\ trace = <<[ev |-> "plugin.batch", detail |-> call.op,
                       data |-> <<call.pageSize>>]>>

\* getWithRelationships over two relationships was rejected for a page size
\* of zero.
C13_Witness ==
  /\ call.op = "getWithRelationships"
  /\ call.n = 2
  /\ call.pageSize = 0
  /\ ret.exc = "InputValidationException"


\* The current call made exactly one call on a collaborator: the plugin
\* method named, with the argument given, whose answer the call returned.
AskedPluginOnce(method, argument) ==
  /\ Len(trace) = 1
  /\ trace[1].ev = method
  /\ trace[1].data = <<argument>>
  /\ ret.value = trace[1].detail

\* C14: persistenceTokenForContext, contextFromPersistenceToken and
\* createChildContext call the plugin exactly when there is state (or a
\* non-empty token) to hand over: without manager state (with the empty
\* token) they make no plugin call and return the empty token (a context
\* without manager state); otherwise they make exactly one call, of the
\* plugin's serialize (deserialize, derive) method with that state (token),
\* and return what the plugin answered.
C14_NoStateNoRoundTrip ==
  /\ call.op = "persistenceTokenForContext" =>
       /\ ret.kind = "return"
       /\ call.handle = "nullptr" => trace = <<>> /\ ret.value = ""
       /\ call.handle # "nullptr" =>
            AskedPluginOnce("plugin.persistenceTokenForState", call.handle)
  /\ call.op = "contextFromPersistenceToken" =>
       /\ ret.kind = "return"
       /\ call.handle = "" => trace = <<>> /\ ret.value = "nullptr"
       /\ call.handle # "" =>
            AskedPluginOnce("plugin.stateFromPersistenceToken", call.handle)
  /\ call.op = "createChildContext" =>
       /\ ret.kind = "return"
       /\ call.handle = "nullptr" => trace = <<>> /\ ret.value = "nullptr"
       /\ call.handle # "nullptr" =>
            AskedPluginOnce("plugin.createChildState", call.handle)

\* contextFromPersistenceToken("") returned a context without manager state.
C14_Witness ==
  /\ call.op = "contextFromPersistenceToken"
  /\ call.handle = ""
  /\ ret.kind = "return"
  /\ ret.value = "nullptr"
  /\ trace = <<>>

====
